---- MODULE Spec2Model ----
(***************************************************************************)
(* A model of the trading engine's execution core:                         *)
(*   - ExecutionHandler  (src/src/execution/advanced_executor.py)          *)
(*   - Executor          (src/src/execution/executor.py)                   *)
(*   - RiskManager       (src/src/risk_management/risk_manager.py)         *)
(*   - RiskManager       (src/src/risk_management/advanced_risk.py)        *)
(*   - PortfolioOptimizer (src/src/risk_management/advanced_risk.py)       *)
(*   - retry             (src/src/utils/error_handling.py)                 *)
(*   - Config.set        (src/src/utils/config.py)                         *)
(*   - Backtester        (src/src/backtesting/backtester.py)               *)
(*                                                                         *)
(* Python floats are modelled as exact rationals <<n, d>> (d > 0, lowest   *)
(* terms) extended with NaN; rounding error is outside the model.  Order   *)
(* quantities handed to ExecutionHandler are integers.                     *)
(***************************************************************************)
EXTENDS Integers, Sequences, FiniteSets, TLC

(***************************************************************************)
(* Exact arithmetic standing in for float arithmetic.                      *)
(***************************************************************************)
Abs(n) == IF n < 0 THEN -n ELSE n

RECURSIVE GCD(_, _)
GCD(a, b) == IF b = 0 THEN a ELSE GCD(b, a % b)

LCM(a, b) == (a \div GCD(a, b)) * b

\* float('nan'): absorbing in arithmetic, false in every ordered comparison.
NaN == <<0, 0>>

\* Python's None in a numeric field (Order.price, Order.stop_price, a missing
\* response price): arithmetic and ordering on it raise TypeError.
NoneVal == <<0, -1>>

IsNaN(x) == x = NaN

IsNone(x) == x = NoneVal

\* the rational n/d in lowest terms with a positive denominator (d # 0)
Rat(n, d) ==
    LET g == GCD(Abs(n), Abs(d))
        s == IF d < 0 THEN -1 ELSE 1
    IN  <<s * (n \div g), s * (d \div g)>>

R(n) == <<n, 1>>

RNeg(x) == IF IsNaN(x) THEN NaN ELSE <<-x[1], x[2]>>

RAdd(x, y) ==
    IF IsNaN(x) \/ IsNaN(y) THEN NaN
    ELSE LET l == LCM(x[2], y[2])
         IN  Rat(x[1] * (l \div x[2]) + y[1] * (l \div y[2]), l)

RSub(x, y) == RAdd(x, RNeg(y))

\* abs(x)
RAbs(x) == IF IsNaN(x) THEN NaN ELSE <<Abs(x[1]), x[2]>>

RMul(x, y) ==
    IF IsNaN(x) \/ IsNaN(y) THEN NaN
    ELSE LET g1 == GCD(Abs(x[1]), y[2])
             g2 == GCD(Abs(y[1]), x[2])
         IN  Rat((x[1] \div g1) * (y[1] \div g2), (x[2] \div g2) * (y[2] \div g1))

\* x / y for y # 0
RDiv(x, y) ==
    IF IsNaN(x) \/ IsNaN(y) THEN NaN
    ELSE RMul(x, IF y[1] > 0 THEN <<y[2], y[1]>> ELSE <<-y[2], -y[1]>>)

RLt(x, y) ==
    /\ ~IsNaN(x)
    /\ ~IsNaN(y)
    /\ LET l == LCM(x[2], y[2])
       IN  x[1] * (l \div x[2]) < y[1] * (l \div y[2])

RGt(x, y) == RLt(y, x)

RLe(x, y) == ~IsNaN(x) /\ ~IsNaN(y) /\ ~RLt(y, x)

RGe(x, y) == RLe(y, x)

\* Python's builtin min(a, b): b only if b < a, so min(nan, b) is nan
PyMin(a, b) == IF RLt(b, a) THEN b ELSE a

RECURSIVE RSum(_)
RSum(s) == IF s = <<>> THEN R(0) ELSE RAdd(RSum(SubSeq(s, 1, Len(s) - 1)), s[Len(s)])

(***************************************************************************)
(* Bounds and input alphabets.                                             *)
(***************************************************************************)
\* create_order calls made on one ExecutionHandler
MaxOrders == 2

Symbols == {"AAA", "BBB"}

Sides == {"buy", "sell"}

Quantities == {0, 1, 2}

Prices == {R(10), R(12)}

\* what a simulated caller asks for: kind, price, reference/stop price
SimRequests ==
    {[order_type |-> "market", price |-> p, stop_price |-> NoneVal] : p \in Prices}
    \cup {[order_type |-> "limit", price |-> p, stop_price |-> R(11)] : p \in Prices}
    \cup {[order_type |-> "stop_loss", price |-> R(10), stop_price |-> R(11)]}
    \cup {[order_type |-> "market", price |-> NoneVal, stop_price |-> NoneVal],
          [order_type |-> "limit", price |-> R(10), stop_price |-> NoneVal]}

\* orders per handler in the runs that build a position up and down
MaxFills == 3

\* quantities of those orders: enough to go short by more than one unit
\* from a long position
FillQuantities == {1, 2, 3}

\* requests of the two remaining order types, OrderType.TAKE_PROFIT and
\* OrderType.TRAILING_STOP
RestingRequests ==
    {[order_type |-> "take_profit", price |-> R(12), stop_price |-> R(11)],
     [order_type |-> "trailing_stop", price |-> R(10), stop_price |-> R(11)]}

\* what a live caller asks for
LiveRequests == {[order_type |-> "market", price |-> R(10), stop_price |-> NoneVal]}

\* the current_prices argument of calculate_portfolio_value: a price for
\* some, all or none of the symbols
PriceDicts ==
    {[symbol \in held |-> IF symbol = "AAA" THEN R(10) ELSE R(12)] : held \in SUBSET Symbols}

\* the symbol argument of get_open_orders; "None" stands for no argument
SymbolFilters == Symbols \cup {"None"}

\* what scipy.optimize.minimize hands back for two assets: the last iterate,
\* whether it converged, and the objective's value there
SolverResults ==
    [invoked : {TRUE},
     x : {<<(<<1, 2>>), (<<1, 2>>)>>, <<R(1), R(0)>>, <<R(0), R(1)>>, <<NaN, NaN>>},
     success : BOOLEAN,
     fun : {R(-1), <<1, 5>>}]

\* the method argument of optimize_portfolio
Methods == {"sharpe", "min_var", "max_div", "other"}

\* portfolio_return and portfolio_vol as numpy computes them from the
\* positions and the returns table (advanced_risk.py lines 169-173)
PortfolioReturns == {R(0), <<1, 50>>, <<1, 10>>}

PortfolioVols == {NaN, R(0), <<1, 5>>, <<1, 4>>, <<3, 10>>, R(1)}

\* the largest max_retries a wrapper is made with
MaxRetries == 3

\* the delay and backoff_factor arguments of retry; time.sleep raises
\* ValueError on a negative length
Delays == {R(1), R(0), R(-1)}

BackoffFactors == {R(2), <<1, 2>>, R(-1)}

\* what one call of the wrapped function does: return a value, raise an
\* exception of a listed type, or raise one of another type
Outcomes ==
    [kind : {"return"}, value : {"a", "b"}]
        \cup [kind : {"listed"}, value : {"DataFetchError", "ExecutionError"}]
        \cup [kind : {"other"}, value : {"KeyError"}]

\* arguments of calculate_position_size called on its own
SizingCapitals == {R(0), R(1000), R(100000)}

SizingPrices == {<<1, 2>>, R(10), R(100)}

SizingVolatilities == {R(0), <<1, 2>>, R(1), R(2), R(10), NaN}

Correlations == {NoneVal, R(-1), <<-1, 2>>, R(0), <<1, 2>>, R(1)}

\* arguments of check_stop_loss and check_take_profit called on their own:
\* entry 100 with prices on, just inside and just outside the four thresholds
\* 98, 102 (stop-loss 0.02) and 95, 105 (take-profit 0.05)
TriggerEntries == {R(100), R(50)}

TriggerPrices ==
    {<<9799, 100>>, R(98), <<9801, 100>>, <<10199, 100>>, R(102), <<10201, 100>>,
     <<9499, 100>>, R(95), <<9501, 100>>, <<10499, 100>>, R(105), <<10501, 100>>,
     R(100), R(49), R(51)}

TriggerPositions == {-2, -1, 0, 1, 2}

\* Backtester.run calls made on one Backtester
MaxRuns == 2

\* bars replayed, over all runs of one Backtester
MaxBars == 4

\* the symbols run is called with
RunSymbols == {"AAPL"}

Signals == {-1, 0, 1}

\* Backtester(initial_capital, commission) as main.py constructs it, replayed on
\* the two-bar feed of the documented end-to-end scenario, and a Backtester
\* with round numbers replayed on feeds of any length
Setups ==
    {[name |-> "main", initial_capital |-> R(100000), commission |-> <<1, 1000>>],
     [name |-> "round", initial_capital |-> R(1000), commission |-> <<1, 10>>]}

MainCloses == <<R(100), R(110)>>

\* data.loc[timestamp, 'Close'] of the i-th bar
Closes(c, i) ==
    IF c.name = "main"
    THEN IF i <= Len(MainCloses) THEN {MainCloses[i]} ELSE {}
    ELSE {R(8), R(10)}

\* data['Close'].rolling(window=20).std().loc[timestamp]: NaN on the first 19 bars
Volatilities(c) ==
    IF c.name = "main" THEN {NaN, R(10)} ELSE {NaN, <<1, 2>>}

\* what the exchange answers to create_order: it raises, or returns a response
\* whose 'price' is a number or None
Responses ==
    {[raises |-> TRUE, price |-> NoneVal]}
    \cup {[raises |-> FALSE, price |-> p] : p \in {R(12), NoneVal}}

(***************************************************************************)
(* State.                                                                  *)
(***************************************************************************)
VARIABLES
    mode,        \* config.get('trading.mode'): "live" or anything else
    positions,   \* ExecutionHandler.positions: symbol -> position record
    orders,      \* ExecutionHandler.orders
    trades,      \* ExecutionHandler.trades
    dropped,     \* Order objects of create_order calls that raised (never appended)
    ret,         \* outcome of the last ExecutionHandler call
    setup,              \* Backtester.__init__ arguments and the bar feed they are run on
    pc,                 \* Backtester: "idle", or "running" inside run's loop
    runs,               \* calls of Backtester.run so far
    nbars,              \* bars processed so far, over all runs
    k,                  \* bars processed by the current run (the bar's timestamp)
    run_symbol,         \* run's symbol argument
    portfolio_value,    \* run's local
    position,           \* run's local: 0 flat, +1 long, -1 short
    entry_price,        \* run's local
    bar,                \* run's locals current_price, signal, volatility of the last bar
    executor_positions, \* Backtester.executor.positions
    executor_trades,    \* Backtester.executor.trades
    trades_before,      \* len(executor.trades) when the current run started
    report,             \* what the last finished run returned, or that it raised
    sizing,             \* the last call of a RiskManager's calculate_position_size
    trigger,            \* the last call of check_stop_loss or check_take_profit
    query,              \* the last call of calculate_portfolio_value or get_open_orders
    risk,               \* the last call of optimize_portfolio or update_portfolio_risk
    retry               \* the wrapper made by retry: its arguments, locals and history

ehVars == <<mode, positions, orders, trades, dropped, ret>>

btVars == <<setup, pc, runs, nbars, k, run_symbol, portfolio_value, position, entry_price, bar,
            executor_positions, executor_trades, trades_before, report>>

rmVars == <<sizing, trigger, query, risk, retry>>

vars == <<ehVars, btVars, rmVars>>

(***************************************************************************)
(* ExecutionHandler                                                        *)
(***************************************************************************)
\* ExecutionHandler.__init__ defaults
commission == <<1, 1000>>

slippage == <<1, 1000>>

\* Order.__init__; history lists the values order.status has taken, in order
Order(symbol, req, side, quantity, timestamp) ==
    [symbol |-> symbol, order_type |-> req.order_type, side |-> side,
     quantity |-> quantity, price |-> req.price, stop_price |-> req.stop_price,
     status |-> "pending", filled_quantity |-> 0, filled_price |-> R(0),
     timestamp |-> timestamp, history |-> <<"pending">>]

\* an assignment order.status = s
SetStatus(o, s) ==
    [o EXCEPT !.status = s,
              !.history = IF o.status = s THEN @ ELSE Append(@, s)]

EmptyPosition == [quantity |-> 0, average_price |-> R(0), realized_pnl |-> R(0)]

\* self.positions.get(symbol, {...})
GetPosition(pos, symbol) == IF symbol \in DOMAIN pos THEN pos[symbol] ELSE EmptyPosition

DelKey(pos, symbol) == [s \in (DOMAIN pos) \ {symbol} |-> pos[s]]

SetKey(pos, symbol, p) ==
    [s \in (DOMAIN pos) \cup {symbol} |-> IF s = symbol THEN p ELSE pos[s]]

\* the buy / sell branch with a sell that adds the filled quantity
FilledPosition_SellAdds(held, o) ==
    IF o.side = "buy"
    THEN LET total_cost == RAdd(RMul(R(held.quantity), held.average_price),
                                RMul(R(o.filled_quantity), o.filled_price))
             new_quantity == held.quantity + o.filled_quantity
         IN  [held EXCEPT
                !.average_price = IF new_quantity > 0
                                  THEN RDiv(total_cost, R(new_quantity))
                                  ELSE R(0),
                !.quantity = new_quantity]
    ELSE LET pnl == RMul(RSub(o.filled_price, held.average_price),
                         R(o.filled_quantity))
         IN  [held EXCEPT
                !.realized_pnl = RAdd(@, pnl),
                !.quantity = @ + o.filled_quantity]

\* the position record after the buy / sell branch, before the zero test
FilledPosition(held, o) ==
    IF o.side = "buy"
    THEN LET total_cost == RAdd(RMul(R(held.quantity), held.average_price),
                                RMul(R(o.filled_quantity), o.filled_price))
             new_quantity == held.quantity + o.filled_quantity
         IN  [held EXCEPT
                !.average_price = IF new_quantity > 0
                                  THEN RDiv(total_cost, R(new_quantity))
                                  ELSE R(0),
                !.quantity = new_quantity]
    ELSE LET pnl == RMul(RSub(o.filled_price, held.average_price),
                         R(o.filled_quantity))
         IN  [held EXCEPT
                !.realized_pnl = RAdd(@, pnl),
                !.quantity = @ - o.filled_quantity]

\* _update_positions without the deletion of an entry that reached zero
UpdatePositions_KeepZero(pos, o) ==
    IF o.status # "filled" THEN [raised |-> FALSE, positions |-> pos]
    ELSE IF IsNone(o.filled_price) THEN [raised |-> TRUE, positions |-> pos]
    ELSE [raised |-> FALSE,
          positions |-> SetKey(pos, o.symbol, FilledPosition(GetPosition(pos, o.symbol), o))]

\* _update_positions: the new table, or raised (TypeError on a None fill price,
\* KeyError on deleting a symbol that has no entry) with the table untouched
UpdatePositions(pos, o) ==
    IF o.status # "filled" THEN [raised |-> FALSE, positions |-> pos]
    ELSE IF IsNone(o.filled_price) THEN [raised |-> TRUE, positions |-> pos]
    ELSE LET held == FilledPosition(GetPosition(pos, o.symbol), o)
         IN  IF held.quantity = 0
             THEN IF o.symbol \in DOMAIN pos
                  THEN [raised |-> FALSE, positions |-> DelKey(pos, o.symbol)]
                  ELSE [raised |-> TRUE, positions |-> pos]
             ELSE [raised |-> FALSE, positions |-> SetKey(pos, o.symbol, held)]

\* _record_trade putting the entry at the head of the ledger
RecordTrade_Prepends(tr, o) ==
    IF o.status # "filled" THEN tr
    ELSE <<[timestamp |-> o.timestamp, symbol |-> o.symbol,
            order_type |-> o.order_type, side |-> o.side,
            quantity |-> o.filled_quantity, price |-> o.filled_price,
            commission |-> RMul(RMul(R(o.filled_quantity), o.filled_price),
                                commission)]>> \o tr

\* _record_trade
RecordTrade(tr, o) ==
    IF o.status # "filled" THEN tr
    ELSE Append(tr, [timestamp |-> o.timestamp, symbol |-> o.symbol,
                     order_type |-> o.order_type, side |-> o.side,
                     quantity |-> o.filled_quantity, price |-> o.filled_price,
                     commission |-> RMul(RMul(R(o.filled_quantity), o.filled_price),
                                         commission)])

\* the fill decision with market orders filled at the requested price
SimulatedFill_NoSlippage(o) ==
    LET fill(price) == [SetStatus(o, "filled") EXCEPT !.filled_price = price,
                                                       !.filled_quantity = o.quantity]
    IN  IF o.order_type = "market"
        THEN IF IsNone(o.price) THEN [raised |-> TRUE, order |-> o]
             ELSE [raised |-> FALSE, order |-> fill(o.price)]
        ELSE IF o.order_type = "limit"
        THEN IF IsNone(o.price) \/ IsNone(o.stop_price) THEN [raised |-> TRUE, order |-> o]
             ELSE IF \/ o.side = "buy" /\ RGe(o.price, o.stop_price)
                     \/ o.side = "sell" /\ RLe(o.price, o.stop_price)
                  THEN [raised |-> FALSE, order |-> fill(o.price)]
                  ELSE [raised |-> FALSE, order |-> SetStatus(o, "pending")]
        ELSE [raised |-> FALSE, order |-> o]

\* the fill decision with every limit order filled, marketable or not
SimulatedFill_LimitAlwaysFills(o) ==
    LET slippage_factor == RAdd(R(1), RMul(slippage, IF o.side = "buy" THEN R(1) ELSE R(-1)))
        fill(price) == [SetStatus(o, "filled") EXCEPT !.filled_price = price,
                                                       !.filled_quantity = o.quantity]
    IN  IF o.order_type = "market"
        THEN IF IsNone(o.price) THEN [raised |-> TRUE, order |-> o]
             ELSE [raised |-> FALSE, order |-> fill(RMul(o.price, slippage_factor))]
        ELSE IF o.order_type = "limit"
        THEN IF IsNone(o.price) \/ IsNone(o.stop_price) THEN [raised |-> TRUE, order |-> o]
             ELSE [raised |-> FALSE, order |-> fill(o.price)]
        ELSE [raised |-> FALSE, order |-> o]

\* the fill decision of _execute_simulated_order (lines 132-146): the order
\* after it, or raised when a comparison or product meets None
SimulatedFill(o) ==
    LET slippage_factor == RAdd(R(1), RMul(slippage, IF o.side = "buy" THEN R(1) ELSE R(-1)))
        fill(price) == [SetStatus(o, "filled") EXCEPT !.filled_price = price,
                                                       !.filled_quantity = o.quantity]
    IN  IF o.order_type = "market"
        THEN IF IsNone(o.price) THEN [raised |-> TRUE, order |-> o]
             ELSE [raised |-> FALSE, order |-> fill(RMul(o.price, slippage_factor))]
        ELSE IF o.order_type = "limit"
        THEN IF IsNone(o.price) \/ IsNone(o.stop_price) THEN [raised |-> TRUE, order |-> o]
             ELSE IF \/ o.side = "buy" /\ RGe(o.price, o.stop_price)
                     \/ o.side = "sell" /\ RLe(o.price, o.stop_price)
                  THEN [raised |-> FALSE, order |-> fill(o.price)]
                  ELSE [raised |-> FALSE, order |-> SetStatus(o, "pending")]
        ELSE [raised |-> FALSE, order |-> o]

\* _execute_simulated_order writing the position entry before the deletion raises
ExecuteSimulatedOrder_PartlyApplied(o, pos, tr) ==
    LET f == SimulatedFill(o)
        u == UpdatePositions(pos, f.order)
    IN  IF f.raised
        THEN [raised |-> TRUE, order |-> f.order, positions |-> pos, trades |-> tr]
        ELSE IF u.raised
        THEN [raised |-> TRUE, order |-> f.order,
              positions |-> SetKey(pos, o.symbol,
                                   FilledPosition(GetPosition(pos, o.symbol), f.order)),
              trades |-> tr]
        ELSE [raised |-> FALSE, order |-> f.order, positions |-> u.positions,
              trades |-> RecordTrade(tr, f.order)]

\* _execute_simulated_order
ExecuteSimulatedOrder(o, pos, tr) ==
    LET f == SimulatedFill(o)
        u == UpdatePositions(pos, f.order)
    IN  IF f.raised \/ u.raised
        THEN [raised |-> TRUE, order |-> f.order, positions |-> pos, trades |-> tr]
        ELSE [raised |-> FALSE, order |-> f.order, positions |-> u.positions,
              trades |-> RecordTrade(tr, f.order)]

\* _execute_live_order, given the exchange's answer
ExecuteLiveOrder(o, response, pos, tr) ==
    IF response.raises
    THEN [raised |-> TRUE, order |-> SetStatus(o, "failed"), positions |-> pos, trades |-> tr]
    ELSE LET filled == [SetStatus(o, "filled") EXCEPT !.filled_quantity = o.quantity,
                                                      !.filled_price = response.price]
             u == UpdatePositions(pos, filled)
         IN  IF u.raised
             THEN [raised |-> TRUE, order |-> SetStatus(filled, "failed"),
                   positions |-> pos, trades |-> tr]
             ELSE [raised |-> FALSE, order |-> filled, positions |-> u.positions,
                   trades |-> RecordTrade(tr, filled)]

\* number of Order objects constructed so far
Constructed == Len(orders) + Len(dropped)

\* create_order, whole call: r is the outcome of the execution path taken
CreateOrderDone(r) ==
    /\ positions' = r.positions
    /\ trades' = r.trades
    /\ IF r.raised
       THEN /\ orders' = orders
            /\ dropped' = Append(dropped, r.order)
            /\ ret' = "raised"
       ELSE /\ orders' = Append(orders, r.order)
            /\ dropped' = dropped
            /\ ret' = "order"
    /\ UNCHANGED <<mode, btVars, rmVars>>

CreateOrderSimulated ==
    /\ mode # "live"
    /\ Constructed < MaxOrders
    /\ \E symbol \in Symbols, req \in SimRequests, side \in Sides, quantity \in Quantities :
         CreateOrderDone(ExecuteSimulatedOrder(
             Order(symbol, req, side, quantity, Constructed + 1), positions, trades))

\* create_order in simulated mode with a take-profit or trailing-stop order
CreateOrderResting ==
    /\ mode # "live"
    /\ Constructed < MaxOrders
    /\ \E symbol \in Symbols, req \in RestingRequests, side \in Sides,
          quantity \in Quantities :
         CreateOrderDone(ExecuteSimulatedOrder(
             Order(symbol, req, side, quantity, Constructed + 1), positions, trades))

\* create_order in simulated mode with a market order on one symbol
CreateMarketOrder ==
    /\ mode # "live"
    /\ Constructed < MaxFills
    /\ \E price \in Prices, side \in Sides, quantity \in FillQuantities :
         CreateOrderDone(ExecuteSimulatedOrder(
             Order("AAA", [order_type |-> "market", price |-> price,
                           stop_price |-> NoneVal],
                   side, quantity, Constructed + 1), positions, trades))

CreateOrderLive ==
    /\ mode = "live"
    /\ Constructed < MaxOrders
    /\ \E symbol \in Symbols, req \in LiveRequests, side \in Sides, quantity \in Quantities,
          response \in Responses :
         CreateOrderDone(ExecuteLiveOrder(
             Order(symbol, req, side, quantity, Constructed + 1), response, positions, trades))

\* cancel_order marking the order filled
CancelOutcome_MarksFilled(o) ==
    IF o.status # "pending" THEN [ret |-> "False", order |-> o]
    ELSE IF mode = "live" THEN [ret |-> "False", order |-> o]
    ELSE [ret |-> "True", order |-> SetStatus(o, "filled")]

\* cancel_order(o): what it returns and the order after it; in live mode the
\* call of exchange.cancel_order reads order.id, which Order does not define
\* (or self.exchange is None): the exception is caught and False returned
CancelOutcome(o) ==
    IF o.status # "pending" THEN [ret |-> "False", order |-> o]
    ELSE IF mode = "live" THEN [ret |-> "False", order |-> o]
    ELSE [ret |-> "True", order |-> SetStatus(o, "cancelled")]

\* cancel_order(orders[i])
CancelOrder ==
    \E i \in 1..Len(orders) :
       /\ ret' = CancelOutcome(orders[i]).ret
       /\ orders' = [orders EXCEPT ![i] = CancelOutcome(orders[i]).order]
       /\ UNCHANGED <<mode, positions, trades, dropped, btVars, rmVars>>

\* config.set('trading.mode', ...) on the module's global Config
SetTradingMode ==
    /\ mode' \in {"backtest", "live"} \ {mode}
    /\ UNCHANGED <<positions, orders, trades, dropped, ret, btVars, rmVars>>

RECURSIVE MarketValue(_, _, _)
\* the loop of calculate_portfolio_value over the symbols still to visit
MarketValue(pos, current_prices, todo) ==
    IF todo = {} THEN R(0)
    ELSE LET symbol == CHOOSE x \in todo : TRUE
             rest == MarketValue(pos, current_prices, todo \ {symbol})
         IN  IF symbol \in DOMAIN current_prices
             THEN RAdd(rest, RMul(R(pos[symbol].quantity), current_prices[symbol]))
             ELSE rest

\* calculate_portfolio_value
CalculatePortfolioValue(pos, current_prices) ==
    MarketValue(pos, current_prices, DOMAIN pos)

\* get_open_orders(symbol) without the status test
GetOpenOrders_AllOrders(os, symbol) ==
    LET OfSymbol(o) == o.symbol = symbol
    IN  IF symbol # "None" THEN SelectSeq(os, OfSymbol) ELSE os

\* get_open_orders(symbol)
GetOpenOrders(os, symbol) ==
    LET Pending(o) == o.status = "pending"
        OfSymbol(o) == o.symbol = symbol
        open_orders == SelectSeq(os, Pending)
    IN  IF symbol # "None" THEN SelectSeq(open_orders, OfSymbol) ELSE open_orders

NoQuery ==
    [method |-> "none", current_prices |-> <<>>, symbol |-> "None",
     counted |-> {}, value |-> R(0), open_orders |-> <<>>]

\* a call of calculate_portfolio_value; counted lists the symbols whose
\* market value the loop added
CalculatePortfolioValueCall ==
    /\ \E current_prices \in PriceDicts :
          query' = [method |-> "calculate_portfolio_value",
                    current_prices |-> current_prices, symbol |-> "None",
                    counted |-> (DOMAIN positions) \cap (DOMAIN current_prices),
                    value |-> CalculatePortfolioValue(positions, current_prices),
                    open_orders |-> <<>>]
    /\ UNCHANGED <<ehVars, btVars, sizing, trigger, risk, retry>>

\* a call of get_open_orders
GetOpenOrdersCall ==
    /\ \E symbol \in SymbolFilters :
          query' = [method |-> "get_open_orders", current_prices |-> <<>>,
                    symbol |-> symbol, counted |-> {}, value |-> R(0),
                    open_orders |-> GetOpenOrders(orders, symbol)]
    /\ UNCHANGED <<ehVars, btVars, sizing, trigger, risk, retry>>

(***************************************************************************)
(* RiskManager (risk_manager.py), with the arguments main.py passes        *)
(***************************************************************************)
max_position_size == <<1, 10>>

stop_loss == <<2, 100>>

take_profit == <<5, 100>>

\* calculate_position_size (volatility * current_price # 0)
CalculatePositionSize(pv, current_price, volatility) ==
    LET max_position_value == RMul(pv, max_position_size)
        risk_adjusted_size == RDiv(max_position_value, RMul(volatility, current_price))
    IN  PyMin(risk_adjusted_size, RDiv(max_position_value, current_price))

\* check_stop_loss triggering on the threshold as well
CheckStopLoss_NonStrict(entry, current_price, pos) ==
    IF pos > 0 THEN RLe(current_price, RMul(entry, RSub(R(1), stop_loss)))
    ELSE IF pos < 0 THEN RGe(current_price, RMul(entry, RAdd(R(1), stop_loss)))
    ELSE FALSE

\* check_stop_loss
CheckStopLoss(entry, current_price, pos) ==
    IF pos > 0 THEN RLt(current_price, RMul(entry, RSub(R(1), stop_loss)))
    ELSE IF pos < 0 THEN RGt(current_price, RMul(entry, RAdd(R(1), stop_loss)))
    ELSE FALSE

\* check_take_profit looking the stop-loss's way: below for a long, above for a short
CheckTakeProfit_SameSide(entry, current_price, pos) ==
    IF pos > 0 THEN RLt(current_price, RMul(entry, RSub(R(1), take_profit)))
    ELSE IF pos < 0 THEN RGt(current_price, RMul(entry, RAdd(R(1), take_profit)))
    ELSE FALSE

\* check_take_profit
CheckTakeProfit(entry, current_price, pos) ==
    IF pos > 0 THEN RGt(current_price, RMul(entry, RAdd(R(1), take_profit)))
    ELSE IF pos < 0 THEN RLt(current_price, RMul(entry, RSub(R(1), take_profit)))
    ELSE FALSE

(***************************************************************************)
(* Executor (executor.py)                                                  *)
(***************************************************************************)
\* _calculate_pnl
CalculatePnl(comm, entry, exit_price, size, signal) ==
    LET gross_pnl == RMul(RMul(RSub(exit_price, entry), size), R(signal))
        cost == RMul(RMul(RAdd(entry, exit_price), size), comm)
    IN  RSub(gross_pnl, cost)

\* execute_trade with the closing pnl computed on the size passed in
ExecuteTrade_PnlOnPassedSize(comm, pos, symbol, signal, price, size, timestamp) ==
    LET base == [timestamp |-> timestamp, symbol |-> symbol,
                 action |-> IF signal > 0 THEN "buy" ELSE "sell",
                 price |-> price, size |-> size,
                 commission |-> RMul(RMul(price, size), comm)]
        with(pnl) == [f \in (DOMAIN base) \cup {"pnl"} |->
                        IF f = "pnl" THEN pnl ELSE base[f]]
    IN  IF symbol \in DOMAIN pos
        THEN IF signal # pos[symbol].signal
             THEN [trade |-> with(CalculatePnl(comm, pos[symbol].price, price,
                                               size, pos[symbol].signal)),
                   positions |-> DelKey(pos, symbol)]
             ELSE [trade |-> with(R(0)),
                   positions |-> [pos EXCEPT ![symbol].size = RAdd(@, size),
                                             ![symbol].price = price]]
        ELSE [trade |-> with(R(0)),
              positions |-> SetKey(pos, symbol,
                                   [signal |-> signal, price |-> price, size |-> size])]

\* execute_trade: the trade appended and the position table after it
ExecuteTrade(comm, pos, symbol, signal, price, size, timestamp) ==
    LET base == [timestamp |-> timestamp, symbol |-> symbol,
                 action |-> IF signal > 0 THEN "buy" ELSE "sell",
                 price |-> price, size |-> size,
                 commission |-> RMul(RMul(price, size), comm)]
        with(pnl) == [f \in (DOMAIN base) \cup {"pnl"} |->
                        IF f = "pnl" THEN pnl ELSE base[f]]
    IN  IF symbol \in DOMAIN pos
        THEN IF signal # pos[symbol].signal
             THEN [trade |-> with(CalculatePnl(comm, pos[symbol].price, price,
                                               pos[symbol].size, pos[symbol].signal)),
                   positions |-> DelKey(pos, symbol)]
             ELSE [trade |-> with(R(0)),
                   positions |-> [pos EXCEPT ![symbol].size = RAdd(@, size),
                                             ![symbol].price = price]]
        ELSE [trade |-> with(R(0)),
              positions |-> SetKey(pos, symbol,
                                   [signal |-> signal, price |-> price, size |-> size])]

(***************************************************************************)
(* Backtester (backtester.py)                                              *)
(***************************************************************************)
\* the exit test of the loop, lines 66-68
ExitCondition(entry, current_price, pos, signal) ==
    \/ CheckStopLoss(entry, current_price, pos)
    \/ CheckTakeProfit(entry, current_price, pos)
    \/ signal = -pos

NoBar == [current_price |-> R(0), signal |-> 0, volatility |-> R(0)]

\* run, lines 25-39: a call starts; the executor is the one made by __init__
RunStart ==
    /\ pc = "idle"
    /\ runs < MaxRuns
    /\ \E symbol \in RunSymbols : run_symbol' = symbol
    /\ pc' = "running"
    /\ runs' = runs + 1
    /\ k' = 0
    /\ portfolio_value' = setup.initial_capital
    /\ position' = 0
    /\ entry_price' = R(0)
    /\ trades_before' = Len(executor_trades)
    /\ bar' = NoBar
    /\ UNCHANGED <<setup, nbars, executor_positions, executor_trades, report, ehVars, rmVars>>

\* the entry branch without the position == 0 test: a signal always enters
BarEntry_Pyramids(current_price, signal, volatility) ==
    /\ signal # 0
    /\ LET size == CalculatePositionSize(portfolio_value, current_price, volatility)
           x == ExecuteTrade(setup.commission, executor_positions, run_symbol, signal,
                             current_price, size, k + 1)
       IN  /\ executor_positions' = x.positions
           /\ executor_trades' = Append(executor_trades, x.trade)
           /\ portfolio_value' = RSub(portfolio_value, x.trade.commission)
    /\ position' = signal
    /\ entry_price' = current_price
    /\ UNCHANGED <<pc, report>>

\* the entry branch without the commission deducted from the capital
BarEntry_NoCommission(current_price, signal, volatility) ==
    /\ position = 0 /\ signal # 0
    /\ LET size == CalculatePositionSize(portfolio_value, current_price, volatility)
           x == ExecuteTrade(setup.commission, executor_positions, run_symbol, signal,
                             current_price, size, k + 1)
       IN  /\ executor_positions' = x.positions
           /\ executor_trades' = Append(executor_trades, x.trade)
           /\ portfolio_value' = portfolio_value
    /\ position' = signal
    /\ entry_price' = current_price
    /\ UNCHANGED <<pc, report>>

\* one iteration of the loop, lines 41-62: flat and a signal, a position opens
BarEntry(current_price, signal, volatility) ==
    /\ position = 0 /\ signal # 0
    /\ LET size == CalculatePositionSize(portfolio_value, current_price, volatility)
           x == ExecuteTrade(setup.commission, executor_positions, run_symbol, signal,
                             current_price, size, k + 1)
       IN  /\ executor_positions' = x.positions
           /\ executor_trades' = Append(executor_trades, x.trade)
           /\ portfolio_value' = RSub(portfolio_value, x.trade.commission)
    /\ position' = signal
    /\ entry_price' = current_price
    /\ UNCHANGED <<pc, report>>

\* the exit branch without the loop's position reset to 0
BarExit_StaysOpen(current_price, signal) ==
    /\ position # 0
    /\ ExitCondition(entry_price, current_price, position, signal)
    /\ IF run_symbol \in DOMAIN executor_positions
       THEN LET size == executor_positions[run_symbol].size
                x == ExecuteTrade(setup.commission, executor_positions, run_symbol,
                                  -position, current_price, size, k + 1)
            IN  /\ executor_positions' = x.positions
                /\ executor_trades' = Append(executor_trades, x.trade)
                /\ portfolio_value' = RAdd(portfolio_value, x.trade.pnl)
                /\ position' = position
                /\ entry_price' = entry_price
                /\ UNCHANGED <<pc, report>>
       ELSE /\ pc' = "idle"
            /\ report' = [raised |-> TRUE]
            /\ UNCHANGED <<executor_positions, executor_trades, portfolio_value,
                           position, entry_price>>

\* lines 64-80: a position is open and an exit condition holds; reading the
\* executor's entry of a symbol it does not hold raises KeyError out of run
BarExit(current_price, signal) ==
    /\ position # 0
    /\ ExitCondition(entry_price, current_price, position, signal)
    /\ IF run_symbol \in DOMAIN executor_positions
       THEN LET size == executor_positions[run_symbol].size
                x == ExecuteTrade(setup.commission, executor_positions, run_symbol,
                                  -position, current_price, size, k + 1)
            IN  /\ executor_positions' = x.positions
                /\ executor_trades' = Append(executor_trades, x.trade)
                /\ portfolio_value' = RAdd(portfolio_value, x.trade.pnl)
                /\ position' = 0
                /\ entry_price' = R(0)
                /\ UNCHANGED <<pc, report>>
       ELSE /\ pc' = "idle"
            /\ report' = [raised |-> TRUE]
            /\ UNCHANGED <<executor_positions, executor_trades, portfolio_value,
                           position, entry_price>>

\* neither branch of the loop body applies
BarHold(current_price, signal) ==
    /\ \/ position = 0 /\ signal = 0
       \/ position # 0 /\ ~ExitCondition(entry_price, current_price, position, signal)
    /\ UNCHANGED <<pc, report, executor_positions, executor_trades, portfolio_value,
                   position, entry_price>>

Bar ==
    /\ pc = "running"
    /\ nbars < MaxBars
    /\ \E current_price \in Closes(setup, k + 1), signal \in Signals,
          volatility \in Volatilities(setup) :
          /\ \/ BarEntry(current_price, signal, volatility)
             \/ BarExit(current_price, signal)
             \/ BarHold(current_price, signal)
          /\ bar' = [current_price |-> current_price, signal |-> signal,
                     volatility |-> volatility]
    /\ k' = k + 1
    /\ nbars' = nbars + 1
    /\ UNCHANGED <<setup, runs, run_symbol, trades_before, ehVars, rmVars>>

\* 'pnl' values of a ledger, as trade_history['pnl']
Pnls(tr) == [i \in 1..Len(tr) |-> tr[i].pnl]

\* Series.sum(): NaN entries are skipped
RECURSIVE SumSkipNaN(_)
SumSkipNaN(s) ==
    IF s = <<>> THEN R(0)
    ELSE LET rest == SumSkipNaN(SubSeq(s, 1, Len(s) - 1))
         IN  IF IsNaN(s[Len(s)]) THEN rest ELSE RAdd(rest, s[Len(s)])

\* the report with break-even trades counted as profitable (pnl >= 0)
Report_CountsBreakEven(initial_capital, pv, tr) ==
    LET total_trades == Len(tr)
        profitable_trades == Cardinality({i \in 1..Len(tr) : RGe(tr[i].pnl, R(0))})
    IN  [raised |-> FALSE,
         initial_capital |-> initial_capital,
         final_portfolio_value |-> pv,
         total_return |-> RDiv(RSub(pv, initial_capital), initial_capital),
         total_trades |-> total_trades,
         profitable_trades |-> profitable_trades,
         win_rate |-> IF total_trades > 0 THEN Rat(profitable_trades, total_trades) ELSE R(0),
         total_pnl |-> SumSkipNaN(Pnls(tr)),
         trade_history |-> tr]

\* lines 82-103: the report of a run that reached the end of its data
Report(initial_capital, pv, tr) ==
    LET total_trades == Len(tr)
        profitable_trades == Cardinality({i \in 1..Len(tr) : RGt(tr[i].pnl, R(0))})
    IN  [raised |-> FALSE,
         initial_capital |-> initial_capital,
         final_portfolio_value |-> pv,
         total_return |-> RDiv(RSub(pv, initial_capital), initial_capital),
         total_trades |-> total_trades,
         profitable_trades |-> profitable_trades,
         win_rate |-> IF total_trades > 0 THEN Rat(profitable_trades, total_trades) ELSE R(0),
         total_pnl |-> SumSkipNaN(Pnls(tr)),
         trade_history |-> tr]

\* the data is exhausted: run returns
RunEnd ==
    /\ pc = "running"
    /\ pc' = "idle"
    /\ report' = Report(setup.initial_capital, portfolio_value, executor_trades)
    /\ UNCHANGED <<setup, runs, nbars, k, run_symbol, portfolio_value, position, entry_price, bar,
                   executor_positions, executor_trades, trades_before, ehVars, rmVars>>

(***************************************************************************)
(* calculate_position_size of both RiskManager classes, called on its own  *)
(***************************************************************************)
\* risk_manager.py, calculate_position_size as a call: with volatility *
\* current_price = 0 the division raises ZeroDivisionError on Python floats
\* and gives inf or nan on numpy.float64 values (as read from a DataFrame)
SimpleSizeOutcome(pv, current_price, volatility, numpy) ==
    LET max_position_value == RMul(pv, max_position_size)
    IN  IF RMul(volatility, current_price) = R(0)
        THEN IF ~numpy THEN [raised |-> TRUE, size |-> NoneVal]
             ELSE [raised |-> FALSE,
                   size |-> IF max_position_value = R(0)
                            THEN NaN
                            ELSE RDiv(max_position_value, current_price)]
        ELSE [raised |-> FALSE,
              size |-> CalculatePositionSize(pv, current_price, volatility)]

\* advanced_risk.py, RiskManager.calculate_position_size (volatility # -1)
AdvancedPositionSize(pv, current_price, volatility, correlation) ==
    LET max_position_value == RMul(pv, max_position_size)
        vol_adjustment == RDiv(R(1), RAdd(R(1), volatility))
        correlation_adjustment ==
            IF IsNone(correlation) THEN R(1) ELSE RSub(R(1), RAbs(correlation))
        adjusted_position_value ==
            RMul(RMul(max_position_value, vol_adjustment), correlation_adjustment)
    IN  PyMin(RDiv(adjusted_position_value, current_price),
              RDiv(max_position_value, current_price))

\* the outcome of the call c made with another volatility
SizeOutcome(c, volatility) ==
    IF c.manager = "risk_manager"
    THEN SimpleSizeOutcome(c.portfolio_value, c.current_price, volatility, c.numpy)
    ELSE [raised |-> FALSE,
          size |-> AdvancedPositionSize(c.portfolio_value, c.current_price, volatility,
                                        c.correlation)]

NoCall ==
    [manager |-> "none", portfolio_value |-> R(0), current_price |-> R(0),
     volatility |-> R(0), correlation |-> NoneVal, numpy |-> FALSE,
     result |-> [raised |-> FALSE, size |-> NoneVal]]

\* a call of risk_manager.RiskManager.calculate_position_size
SimpleCalculatePositionSize ==
    /\ \E pv \in SizingCapitals, current_price \in SizingPrices,
          volatility \in SizingVolatilities, numpy \in BOOLEAN :
          sizing' = [manager |-> "risk_manager", portfolio_value |-> pv,
                     current_price |-> current_price, volatility |-> volatility,
                     correlation |-> NoneVal, numpy |-> numpy,
                     result |-> SimpleSizeOutcome(pv, current_price, volatility, numpy)]
    /\ UNCHANGED <<ehVars, btVars, trigger, query, risk, retry>>

\* a call of advanced_risk.RiskManager.calculate_position_size
AdvancedCalculatePositionSize ==
    /\ \E pv \in SizingCapitals, current_price \in SizingPrices,
          volatility \in SizingVolatilities, correlation \in Correlations,
          numpy \in BOOLEAN :
          sizing' = [manager |-> "advanced_risk", portfolio_value |-> pv,
                     current_price |-> current_price, volatility |-> volatility,
                     correlation |-> correlation, numpy |-> numpy,
                     result |-> [raised |-> FALSE,
                                 size |-> AdvancedPositionSize(pv, current_price, volatility,
                                                               correlation)]]
    /\ UNCHANGED <<ehVars, btVars, trigger, query, risk, retry>>

(***************************************************************************)
(* PortfolioOptimizer and RiskManager.update_portfolio_risk                *)
(* (advanced_risk.py)                                                      *)
(***************************************************************************)
\* advanced_risk.RiskManager.__init__ default
max_drawdown == <<1, 4>>

\* x / y on numpy.float64: a zero divisor gives nan or an infinity, here
\* <<1, 0>> and <<-1, 0>>, with a warning and no exception
NpDiv(x, y) ==
    IF IsNaN(x) \/ IsNaN(y) THEN NaN
    ELSE IF y = R(0)
    THEN IF x = R(0) THEN NaN ELSE IF RGt(x, R(0)) THEN <<1, 0>> ELSE <<-1, 0>>
    ELSE RDiv(x, y)

\* minimize has not been called
NoSolve == [invoked |-> FALSE, x |-> <<>>, success |-> FALSE, fun |-> R(0)]

\* optimize_portfolio(returns, method), given what minimize hands back
OptimizePortfolio(method, solver) ==
    IF method = "sharpe"
    THEN [raised |-> FALSE, weights |-> solver.x, sharpe_ratio |-> RNeg(solver.fun),
          success |-> solver.success]
    ELSE IF method = "min_var"
    THEN [raised |-> FALSE, weights |-> solver.x, volatility |-> solver.fun,
          success |-> solver.success]
    ELSE IF method = "max_div"
    THEN [raised |-> FALSE, weights |-> solver.x,
          diversification_ratio |-> RNeg(solver.fun), success |-> solver.success]
    ELSE [raised |-> TRUE]

\* update_portfolio_risk with the check on portfolio_vol made with >=
UpdatePortfolioRisk_NonStrict(portfolio_return, portfolio_vol, solver) ==
    IF RGe(portfolio_vol, max_drawdown)
    THEN [rebalance_needed |-> TRUE,
          optimal_weights |-> OptimizePortfolio("sharpe", solver).weights,
          current_risk |-> portfolio_vol,
          sharpe_ratio |-> NpDiv(RSub(portfolio_return, <<2, 100>>), portfolio_vol)]
    ELSE [rebalance_needed |-> FALSE,
          current_risk |-> portfolio_vol,
          sharpe_ratio |-> NpDiv(RSub(portfolio_return, <<2, 100>>), portfolio_vol)]

\* update_portfolio_risk from the check on portfolio_vol on (lines 176-191)
UpdatePortfolioRisk(portfolio_return, portfolio_vol, solver) ==
    IF RGt(portfolio_vol, max_drawdown)
    THEN [rebalance_needed |-> TRUE,
          optimal_weights |-> OptimizePortfolio("sharpe", solver).weights,
          current_risk |-> portfolio_vol,
          sharpe_ratio |-> NpDiv(RSub(portfolio_return, <<2, 100>>), portfolio_vol)]
    ELSE [rebalance_needed |-> FALSE,
          current_risk |-> portfolio_vol,
          sharpe_ratio |-> NpDiv(RSub(portfolio_return, <<2, 100>>), portfolio_vol)]

NoRisk ==
    [call |-> "none", method |-> "none", portfolio_return |-> R(0),
     portfolio_vol |-> R(0), solver |-> NoSolve, result |-> [raised |-> FALSE]]

\* a call of PortfolioOptimizer.optimize_portfolio; an unknown method raises
\* ValueError before minimize is called
OptimizePortfolioCall ==
    /\ \E method \in Methods, solved \in SolverResults :
          LET solver == IF method = "other" THEN NoSolve ELSE solved
          IN  risk' = [call |-> "optimize_portfolio", method |-> method,
                       portfolio_return |-> R(0), portfolio_vol |-> R(0),
                       solver |-> solver, result |-> OptimizePortfolio(method, solver)]
    /\ UNCHANGED <<ehVars, btVars, sizing, trigger, query, retry>>

\* a call of RiskManager.update_portfolio_risk; minimize runs only inside
\* the branch that rebalances
UpdatePortfolioRiskCall ==
    /\ \E portfolio_return \in PortfolioReturns, portfolio_vol \in PortfolioVols,
          solved \in SolverResults :
          LET solver == IF RGt(portfolio_vol, max_drawdown) THEN solved ELSE NoSolve
          IN  risk' = [call |-> "update_portfolio_risk", method |-> "sharpe",
                       portfolio_return |-> portfolio_return,
                       portfolio_vol |-> portfolio_vol, solver |-> solver,
                       result |-> UpdatePortfolioRisk(portfolio_return, portfolio_vol,
                                                      solver)]
    /\ UNCHANGED <<ehVars, btVars, sizing, trigger, query, retry>>

(***************************************************************************)
(* retry (error_handling.py)                                               *)
(***************************************************************************)
NoWrapper ==
    [pc |-> "idle", max_retries |-> 0, delay |-> R(0), backoff_factor |-> R(0),
     attempt |-> 0, current_delay |-> R(0), outcomes |-> <<>>, sleeps |-> <<>>,
     result |-> "None", raised |-> "none"]

\* one pass of the loop that sleeps after every failed attempt, the last too,
\* and so falls out of the loop to return None
RetryStep_SleepsAfterLast(w, outcome) ==
    LET called == [w EXCEPT !.outcomes = Append(@, outcome)]
    IN  IF outcome.kind = "return"
        THEN [called EXCEPT !.pc = "returned", !.result = outcome.value]
        ELSE IF outcome.kind = "other"
        THEN [called EXCEPT !.pc = "raised", !.raised = outcome.value]
        ELSE IF RLt(w.current_delay, R(0))
        THEN [called EXCEPT !.pc = "raised", !.raised = "ValueError"]
        ELSE [called EXCEPT !.pc = IF w.attempt = w.max_retries - 1
                                   THEN "returned" ELSE "running",
                            !.sleeps = Append(@, w.current_delay),
                            !.current_delay = RMul(@, w.backoff_factor),
                            !.attempt = @ + 1]

\* one pass of the loop of wrapper, lines 17-26: the call of func, and what
\* follows it up to the next call
RetryStep(w, outcome) ==
    LET called == [w EXCEPT !.outcomes = Append(@, outcome)]
    IN  IF outcome.kind = "return"
        THEN [called EXCEPT !.pc = "returned", !.result = outcome.value]
        ELSE IF outcome.kind = "other"
        THEN [called EXCEPT !.pc = "raised", !.raised = outcome.value]
        ELSE IF w.attempt = w.max_retries - 1
        THEN [called EXCEPT !.pc = "raised", !.raised = outcome.value]
        ELSE IF RLt(w.current_delay, R(0))
        THEN [called EXCEPT !.pc = "raised", !.raised = "ValueError"]
        ELSE [called EXCEPT !.sleeps = Append(@, w.current_delay),
                            !.current_delay = RMul(@, w.backoff_factor),
                            !.attempt = @ + 1]

\* a call of a function decorated with retry(max_retries, delay,
\* backoff_factor, exceptions): lines 16-17 and, for an empty range, line 27
RetryCall ==
    /\ retry.pc # "running"
    /\ \E max_retries \in 0..MaxRetries, delay \in Delays,
          backoff_factor \in BackoffFactors :
          retry' = [NoWrapper EXCEPT !.pc = IF max_retries = 0 THEN "returned"
                                           ELSE "running",
                                    !.max_retries = max_retries,
                                    !.delay = delay,
                                    !.backoff_factor = backoff_factor,
                                    !.current_delay = delay]
    /\ UNCHANGED <<ehVars, btVars, sizing, trigger, query, risk>>

\* the next attempt of the running wrapper
RetryAttempt ==
    /\ retry.pc = "running"
    /\ \E outcome \in Outcomes : retry' = RetryStep(retry, outcome)
    /\ UNCHANGED <<ehVars, btVars, sizing, trigger, query, risk>>

(***************************************************************************)
(* check_stop_loss and check_take_profit called on their own               *)
(***************************************************************************)
NoTrigger ==
    [method |-> "none", entry_price |-> R(0), current_price |-> R(0), position |-> 0,
     result |-> FALSE]

\* a call of RiskManager.check_stop_loss
CheckStopLossCall ==
    /\ \E entry \in TriggerEntries, current_price \in TriggerPrices,
          pos \in TriggerPositions :
          trigger' = [method |-> "check_stop_loss", entry_price |-> entry,
                      current_price |-> current_price, position |-> pos,
                      result |-> CheckStopLoss(entry, current_price, pos)]
    /\ UNCHANGED <<ehVars, btVars, sizing, query, risk, retry>>

\* a call of RiskManager.check_take_profit
CheckTakeProfitCall ==
    /\ \E entry \in TriggerEntries, current_price \in TriggerPrices,
          pos \in TriggerPositions :
          trigger' = [method |-> "check_take_profit", entry_price |-> entry,
                      current_price |-> current_price, position |-> pos,
                      result |-> CheckTakeProfit(entry, current_price, pos)]
    /\ UNCHANGED <<ehVars, btVars, sizing, query, risk, retry>>

InitHandler ==
    /\ mode \in {"backtest", "live"}
    /\ positions = <<>>
    /\ orders = <<>>
    /\ trades = <<>>
    /\ dropped = <<>>
    /\ ret = "none"

InitBacktester ==
    /\ setup \in Setups
    /\ pc = "idle"
    /\ runs = 0
    /\ nbars = 0
    /\ k = 0
    /\ run_symbol = "AAPL"
    /\ portfolio_value = R(0)
    /\ position = 0
    /\ entry_price = R(0)
    /\ bar = NoBar
    /\ executor_positions = <<>>
    /\ executor_trades = <<>>
    /\ trades_before = 0
    /\ report = [raised |-> FALSE]

InitRisk == sizing = NoCall /\ trigger = NoTrigger /\ query = NoQuery /\ risk = NoRisk
            /\ retry = NoWrapper

Init == InitHandler /\ InitBacktester /\ InitRisk

NextExecution ==
    \/ CreateOrderSimulated
    \/ CreateOrderLive
    \/ CancelOrder

NextBacktest ==
    \/ RunStart
    \/ Bar
    \/ RunEnd

\* the handler's operations with the trading mode reconfigured between calls
NextReconfigured ==
    \/ NextExecution
    \/ SetTradingMode

NextSizing ==
    \/ SimpleCalculatePositionSize
    \/ AdvancedCalculatePositionSize

\* the simulated handler with its read-only calls
NextQueries ==
    \/ CreateOrderSimulated
    \/ CancelOrder
    \/ CalculatePortfolioValueCall
    \/ GetOpenOrdersCall

NextPending ==
    \/ CreateOrderSimulated
    \/ CreateOrderResting
    \/ CancelOrder

NextFills == CreateMarketOrder

NextPortfolio ==
    \/ OptimizePortfolioCall
    \/ UpdatePortfolioRiskCall

NextRetry ==
    \/ RetryCall
    \/ RetryAttempt

NextTriggers ==
    \/ CheckStopLossCall
    \/ CheckTakeProfitCall

Next == NextReconfigured \/ NextBacktest \/ NextSizing \/ NextTriggers \/ NextQueries
            \/ NextPortfolio \/ NextRetry \/ NextPending
            \/ NextFills

\* the handler alone: the Backtester stays as constructed by main.py
InitExecution == Init /\ setup.name = "main"

\* the Backtester alone: the handler stays as constructed, in the default mode
InitBacktest == Init /\ mode = "backtest"

SpecExecution == InitExecution /\ [][NextExecution]_vars

SpecBacktest == InitBacktest /\ [][NextBacktest]_vars

\* the risk managers alone
InitSizing == Init /\ mode = "backtest" /\ setup.name = "main"

SpecSizing == InitSizing /\ [][NextSizing]_vars

SpecTriggers == InitSizing /\ [][NextTriggers]_vars

SpecQueries == InitSizing /\ [][NextQueries]_vars

\* the handler in simulated mode, filling up to MaxFills market orders
SpecFills == InitSizing /\ [][NextFills]_vars

\* the handler in simulated mode, with orders of all five types
SpecPending == InitSizing /\ [][NextPending]_vars

SpecPortfolio == InitSizing /\ [][NextPortfolio]_vars

\* func returns or raises whenever it is called, and time.sleep returns:
\* a running wrapper makes its next attempt
SpecRetry == InitSizing /\ [][NextRetry]_vars /\ WF_vars(RetryAttempt)

SpecReconfigured == InitExecution /\ [][NextReconfigured]_vars

Spec == Init /\ [][Next]_vars

(***************************************************************************)
(* Properties of ExecutionHandler                                          *)
(***************************************************************************)
Range(f) == {f[i] : i \in DOMAIN f}

Sign(n) == IF n > 0 THEN 1 ELSE IF n < 0 THEN -1 ELSE 0

\* every Order object create_order has constructed, kept or not
AllOrders == Range(orders) \cup Range(dropped)

\* C1: the status of an order created by create_order only ever moves
\* pending -> filled, pending -> cancelled or pending -> failed, and a filled,
\* cancelled or failed order never changes status again.
C1_StatusMonotone ==
    \A o \in AllOrders :
        o.history \in {<<"pending">>, <<"pending", "filled">>,
                       <<"pending", "cancelled">>, <<"pending", "failed">>}

\* signed filled quantity of an order: buys count up, sells down
SignedFill(o) ==
    IF o.status # "filled" THEN 0
    ELSE IF o.side = "buy" THEN o.filled_quantity ELSE -o.filled_quantity

RECURSIVE NetOrdered(_, _)
\* net quantity of a symbol over the orders create_order has returned
NetOrdered(os, symbol) ==
    IF os = <<>> THEN 0
    ELSE NetOrdered(SubSeq(os, 1, Len(os) - 1), symbol)
         + (IF os[Len(os)].symbol = symbol THEN SignedFill(os[Len(os)]) ELSE 0)

\* C2: after any sequence of create_order calls the position table holds no
\* entry of quantity 0: a symbol is a key exactly when its net filled
\* quantity is non-zero.
C2_NoZeroQuantityEntry ==
    \A symbol \in Symbols :
        /\ symbol \in DOMAIN positions <=> NetOrdered(orders, symbol) # 0
        /\ symbol \in DOMAIN positions => positions[symbol].quantity # 0

\* a position was opened and then closed out: its entry is gone
C2_Witness ==
    \E symbol \in Symbols :
        /\ symbol \notin DOMAIN positions
        /\ \E i, j \in 1..Len(orders) :
              /\ i < j
              /\ orders[i].symbol = symbol /\ orders[j].symbol = symbol
              /\ orders[i].status = "filled" /\ orders[j].status = "filled"
              /\ orders[i].filled_quantity > 0
              /\ orders[i].side # orders[j].side

\* a step of create_order in which an order filled: the ledger grew by one
FillStep == Len(trades') = Len(trades) + 1

\* the fill of such a step
LastFill == trades'[Len(trades')]

\* the fill is against the held position: a sell against a long, a buy against a short
Opposite(held, side) ==
    \/ held.quantity > 0 /\ side = "sell"
    \/ held.quantity < 0 /\ side = "buy"

Min(a, b) == IF a < b THEN a ELSE b

\* what the realized PnL of a fill is specified to be
SpecifiedPnl(held, side, quantity, price) ==
    IF Opposite(held, side)
    THEN RMul(RMul(RSub(price, held.average_price),
                   R(Min(Abs(held.quantity), quantity))),
              R(Sign(held.quantity)))
    ELSE R(0)

\* C3: a fill opposite in direction to the held position raises the position's
\* realized PnL by exactly (fill_price - average_price) x closed_quantity x sign
\* of the held position; a fill that opens or adds to a position, a short one
\* included, changes realized PnL by 0.  (Stated of the fills that leave a
\* position entry to read the realized PnL from.)
C3_RealizedPnlOfFill ==
    [][FillStep /\ LastFill.symbol \in DOMAIN positions' =>
         LET held == GetPosition(positions, LastFill.symbol)
         IN  positions'[LastFill.symbol].realized_pnl =
                 RAdd(held.realized_pnl,
                      SpecifiedPnl(held, LastFill.side, LastFill.quantity, LastFill.price))]_vars

\* C4: a fill in the direction of the held position, or on a symbol with no
\* position, accumulates the quantity and makes the average price the
\* quantity-weighted blend (|old_qty| x old_avg + fill_qty x fill_price) /
\* (|old_qty| + fill_qty), for buys building a long as for sells opening or
\* building a short.
C4_SameDirectionBlend ==
    [][FillStep /\ LastFill.symbol \in DOMAIN positions' =>
         LET held == GetPosition(positions, LastFill.symbol)
             after == positions'[LastFill.symbol]
             signed == IF LastFill.side = "buy" THEN LastFill.quantity ELSE -LastFill.quantity
         IN  ~Opposite(held, LastFill.side) =>
                /\ after.quantity = held.quantity + signed
                /\ after.average_price =
                      RDiv(RAdd(RMul(R(Abs(held.quantity)), held.average_price),
                                RMul(R(LastFill.quantity), LastFill.price)),
                           R(Abs(held.quantity) + LastFill.quantity))]_vars

\* an order of the given side and quantity, filled in full at the given price
Fill(symbol, side, quantity, price) ==
    [SetStatus(Order(symbol, [order_type |-> "market", price |-> price,
                              stop_price |-> NoneVal], side, quantity, 0), "filled")
        EXCEPT !.filled_quantity = quantity, !.filled_price = price]

\* the position of a symbol after _update_positions applies one more fill
After(pos, o) == GetPosition(UpdatePositions(pos, o).positions, o.symbol)

\* C5: a single fill of quantity q against a position of size s < q leaves the
\* same quantity, average price and total realized PnL as the update rule
\* applied twice at the same fill price: a fill of s that closes the position,
\* then a fill of q - s in the same direction.
C5_FlipIsTwoFills ==
    \A symbol \in DOMAIN positions, price \in Prices, q \in Quantities :
        LET held == positions[symbol]
            s == Abs(held.quantity)
            side == IF held.quantity > 0 THEN "sell" ELSE "buy"
            single == After(positions, Fill(symbol, side, q, price))
            closed == UpdatePositions(positions, Fill(symbol, side, s, price)).positions
            first == FilledPosition(held, Fill(symbol, side, s, price))
            second == After(closed, Fill(symbol, side, q - s, price))
        IN  q > s =>
              /\ single.quantity = second.quantity
              /\ single.average_price = second.average_price
              /\ RSub(single.realized_pnl, held.realized_pnl) =
                     RAdd(RSub(first.realized_pnl, held.realized_pnl),
                          RSub(second.realized_pnl,
                               GetPosition(closed, symbol).realized_pnl))

RECURSIVE LedgerNet(_, _)
\* total bought minus total sold quantity of a symbol in a trade ledger
LedgerNet(tr, symbol) ==
    IF tr = <<>> THEN 0
    ELSE LedgerNet(SubSeq(tr, 1, Len(tr) - 1), symbol)
         + (IF tr[Len(tr)].symbol # symbol THEN 0
            ELSE IF tr[Len(tr)].side = "buy" THEN tr[Len(tr)].quantity
            ELSE -tr[Len(tr)].quantity)

\* C6: after any sequence of fills the sign of a symbol's position quantity is
\* the sign of (total bought - total sold) in the trade ledger, and the
\* position is absent exactly when that net is zero.
C6_SignMatchesLedger ==
    \A symbol \in Symbols :
        /\ Sign(GetPosition(positions, symbol).quantity) = Sign(LedgerNet(trades, symbol))
        /\ symbol \notin DOMAIN positions <=> LedgerNet(trades, symbol) = 0

\* a short position built by selling more than was bought
C6_Witness ==
    \E symbol \in DOMAIN positions :
        /\ positions[symbol].quantity < 0
        /\ \E i, j \in 1..Len(trades) :
              /\ trades[i].symbol = symbol /\ trades[j].symbol = symbol
              /\ trades[i].side = "buy" /\ trades[j].side = "sell"
              /\ trades[i].quantity > 0

(***************************************************************************)
(* Properties of Backtester                                                *)
(***************************************************************************)
\* run has just returned its report
Returned == pc = "idle" /\ runs > 0 /\ ~report.raised

Commissions(tr) == [i \in 1..Len(tr) |-> tr[i].commission]

\* the fills the current run has made
RunTrades(tr) == SubSeq(tr, trades_before + 1, Len(tr))

\* the fills a run made while flat (1st, 3rd, ...) and while open (2nd, 4th, ...)
OpeningFills(tr) == [i \in 1..((Len(tr) + 1) \div 2) |-> tr[2 * i - 1]]

ClosingFills(tr) == [i \in 1..(Len(tr) \div 2) |-> tr[2 * i]]

\* the position still open in the executor, marked at the last bar's close
Unrealized ==
    IF run_symbol \in DOMAIN executor_positions
    THEN LET held == executor_positions[run_symbol]
         IN  RMul(RMul(RSub(bar.current_price, held.price), held.size), R(held.signal))
    ELSE R(0)

\* C7: for every replay the sum of the ledger's 'pnl' values equals
\* final_portfolio_value - initial_capital - the sum of the ledger's
\* commissions - the unrealized value of a position still open at the end.
C7_LedgerPnlIdentity ==
    Returned =>
        RSum(Pnls(report.trade_history)) =
            RSub(RSub(RSub(report.final_portfolio_value, report.initial_capital),
                      RSum(Commissions(report.trade_history))),
                 Unrealized)

\* C7 as amended: final_portfolio_value equals initial_capital minus the
\* commissions of the fills the replay made to open a position plus the 'pnl'
\* values of the fills it made to close one (NaN once a fill's size is NaN):
\* the closing fills' commissions and unrealized value do not enter.
C7_ClosingPnlIdentity ==
    Returned =>
        report.final_portfolio_value =
            RAdd(RSub(report.initial_capital,
                      RSum(Commissions(OpeningFills(RunTrades(report.trade_history))))),
                 RSum(Pnls(ClosingFills(RunTrades(report.trade_history)))))

\* a first replay that opened and closed two positions, all sizes finite
C7_Witness ==
    /\ Returned
    /\ runs = 1
    /\ Len(report.trade_history) = 4
    /\ ~IsNaN(report.final_portfolio_value)
    /\ report.final_portfolio_value # report.initial_capital

\* a step that processes one bar (or raises out of it)
BarStep == nbars' = nbars + 1

\* the bar's fill, when the step made one
BarFill == executor_trades'[Len(executor_trades')]

BarFilled == Len(executor_trades') = Len(executor_trades) + 1

\* the fill that opened the position the loop holds: the run's latest fill
OpenedBy == executor_trades[Len(executor_trades)]

\* C8: opening a position of size q at price p0 reduces capital by exactly
\* p0 x q x commission, and closing it at price p1 adds exactly
\* (p1 - p0) x q x sign - (p0 + p1) x q x commission.  (Stated of the fills
\* that leave a capital that is a number.)
C8_CapitalPerFill ==
    [][BarStep /\ BarFilled /\ ~IsNaN(portfolio_value') =>
         IF position = 0
         THEN portfolio_value' =
                  RSub(portfolio_value,
                       RMul(RMul(BarFill.price, BarFill.size), setup.commission))
         ELSE portfolio_value' =
                  RAdd(portfolio_value,
                       RSub(RMul(RMul(RSub(BarFill.price, OpenedBy.price), OpenedBy.size),
                                 R(position)),
                            RMul(RMul(RAdd(OpenedBy.price, BarFill.price), OpenedBy.size),
                                 setup.commission)))]_vars

\* C8, the worked scenario: initial capital 100000, commission 0.001, a long
\* entry of size 10 at 100 and an exit at 110 give an entry commission of 1.0,
\* a realized PnL of 97.9 on the exit and a final capital of 100096.9.
C8_Scenario ==
    LET tr == executor_trades
    IN  /\ setup.initial_capital = R(100000) /\ setup.commission = <<1, 1000>>
        /\ runs = 1 /\ Len(tr) = 2
        /\ tr[1].action = "buy" /\ tr[1].size = R(10) /\ tr[1].price = R(100)
        /\ tr[2].price = R(110)
        => /\ tr[1].commission = R(1)
           /\ tr[2].pnl = <<979, 10>>
           /\ portfolio_value = <<1000969, 10>>

\* the scenario's replay has run
C8_ScenarioReached ==
    /\ setup.initial_capital = R(100000)
    /\ runs = 1 /\ Len(executor_trades) = 2
    /\ executor_trades[1].action = "buy" /\ executor_trades[1].size = R(10)

\* C9: at most one position is open at a time: while the loop is OPEN, a bar
\* whose signal equals the position's sign makes no trade and changes neither
\* the position's size or entry price nor capital, unless a stop-loss or
\* take-profit closes the position on that bar; the run's fills alternate
\* between opening and closing.
C9_SecondEntryIgnored ==
    [][BarStep =>
         /\ (/\ position # 0
             /\ bar'.signal = position
             /\ ~CheckStopLoss(entry_price, bar'.current_price, position)
             /\ ~CheckTakeProfit(entry_price, bar'.current_price, position))
            => UNCHANGED <<executor_trades, executor_positions, position, entry_price,
                           portfolio_value>>
         /\ position' # 0 <=> Len(RunTrades(executor_trades')) % 2 = 1]_vars

\* a second entry signal has just been ignored: the position opened on an
\* earlier bar is still the only fill of the run
C9_Witness ==
    /\ pc = "running"
    /\ position # 0
    /\ bar.signal = position
    /\ Len(RunTrades(executor_trades)) = 1
    /\ executor_trades[Len(executor_trades)].timestamp < k

\* C10: while the loop is OPEN(sign), on each bar the full position is closed
\* at that bar's close exactly when the stop-loss, the take-profit or an
\* opposing signal holds; after a close the loop is FLAT, the executor holds no
\* position for the symbol and no new position is opened on that bar;
\* otherwise position, entry price and capital are unchanged.
C10_CloseIffExitCondition ==
    [][BarStep /\ position # 0 =>
         IF ExitCondition(entry_price, bar'.current_price, position, bar'.signal)
         THEN /\ BarFilled
              /\ BarFill.price = bar'.current_price
              /\ BarFill.action = (IF position > 0 THEN "sell" ELSE "buy")
              /\ position' = 0
              /\ run_symbol \notin DOMAIN executor_positions'
         ELSE UNCHANGED <<executor_trades, executor_positions, position, entry_price,
                          portfolio_value>>]_vars

(***************************************************************************)
(* Ownership of a replay's portfolio state                                 *)
(***************************************************************************)
\* a step in which a call of run starts
RunStarts == pc = "idle" /\ pc' = "running"

\* a step in which a call of run returns its report
RunReturns == pc = "running" /\ pc' = "idle" /\ ~report'.raised

\* C11: every call of Backtester.run starts from an empty position table and
\* an empty trade ledger, and the report it returns counts and lists only the
\* fills of that run, also when an earlier run on the same Backtester ended
\* with a position still open.
C11_RunOwnsItsState ==
    [][/\ RunStarts => executor_positions' = <<>> /\ executor_trades' = <<>>
       /\ RunReturns =>
             /\ report'.trade_history = RunTrades(executor_trades')
             /\ report'.total_trades = Len(RunTrades(executor_trades'))]_vars

(***************************************************************************)
(* Cancellation and failure of orders                                      *)
(***************************************************************************)
\* a step of cancel_order that is not a stuttering step
CancelStep ==
    /\ ret' \in {"True", "False"}
    /\ mode' = mode
    /\ ret' # ret \/ orders' # orders

\* C12: cancel_order returns True and sets the status to cancelled if and only
\* if the order's status is pending; for any other order it returns False and
\* leaves the order's status, the position table, the order list and the trade
\* ledger unchanged.
C12_CancelIffPending ==
    [][/\ \A i \in 1..Len(orders) :
             LET r == CancelOutcome(orders[i])
             IN  /\ (r.ret = "True" /\ r.order.status = "cancelled")
                        <=> orders[i].status = "pending"
                 /\ orders[i].status # "pending" => r.ret = "False" /\ r.order = orders[i]
       /\ CancelStep /\ ret' = "False" => UNCHANGED <<orders, positions, trades>>
       /\ CancelStep /\ ret' = "True" =>
             /\ UNCHANGED <<positions, trades>>
             /\ \E i \in 1..Len(orders) :
                   /\ orders[i].status = "pending"
                   /\ orders' = [orders EXCEPT ![i] = SetStatus(@, "cancelled")]]_vars

\* a step in which create_order raised
CreateRaised == Len(dropped') = Len(dropped) + 1

\* the order of such a call
Failed == dropped'[Len(dropped')]

\* C13: whenever create_order raises, the position table, the order list and
\* the trade ledger are exactly as they were before the call.
C13_FailedOrderNotApplied ==
    [][CreateRaised => ret' = "raised" /\ UNCHANGED <<positions, orders, trades>>]_vars

\* create_order has just raised while a position was held: on a market order
\* with no price, on a limit order with no stop price, or on a zero-quantity
\* fill on a symbol with no position
C13_Witness ==
    /\ ret = "raised"
    /\ positions # <<>>
    /\ \E i \in 1..Len(dropped) :
          \/ dropped[i].order_type = "market" /\ IsNone(dropped[i].price)
          \/ dropped[i].order_type = "limit" /\ IsNone(dropped[i].stop_price)
          \/ dropped[i].status = "filled" /\ dropped[i].quantity = 0

(***************************************************************************)
(* Simulated fills                                                         *)
(***************************************************************************)
\* C14: in simulated mode every market order create_order returns is filled
\* within the call, in full, at requested price x (1 + slippage) for a buy and
\* requested price x (1 - slippage) for a sell, so a buy never fills below and
\* a sell never fills above the requested price.
C14_MarketFillsAtSlippagePrice ==
    mode # "live" =>
        \A i \in 1..Len(orders) :
            LET o == orders[i]
            IN  o.order_type = "market" =>
                  /\ o.history = <<"pending", "filled">>
                  /\ o.filled_quantity = o.quantity
                  /\ o.filled_price =
                        RMul(o.price, IF o.side = "buy" THEN RAdd(R(1), slippage)
                                      ELSE RSub(R(1), slippage))
                  /\ IF o.side = "buy" THEN RGe(o.filled_price, o.price)
                     ELSE RLe(o.filled_price, o.price)

\* a simulated market buy and a simulated market sell have both filled
C14_Witness ==
    /\ mode # "live"
    /\ \E i, j \in 1..Len(orders) :
          /\ orders[i].order_type = "market" /\ orders[i].side = "buy"
          /\ orders[i].quantity > 0
          /\ RGt(orders[i].filled_price, orders[i].price)
          /\ orders[j].order_type = "market" /\ orders[j].side = "sell"
          /\ RLt(orders[j].filled_price, orders[j].price)

\* a step in which create_order returned an order
CreateReturned == Len(orders') = Len(orders) + 1

\* the order of such a call
Created == orders'[Len(orders')]

\* a limit order is marketable: buy at or above, sell at or below the stop price
Marketable(o) ==
    \/ o.side = "buy" /\ RGe(o.price, o.stop_price)
    \/ o.side = "sell" /\ RLe(o.price, o.stop_price)

\* C15: in simulated mode a limit order is filled if and only if it is
\* marketable; when filled it fills in full at the limit price, with no
\* slippage; otherwise it stays pending with filled quantity 0 and changes
\* neither positions nor ledger.  No order ever has a filled quantity other
\* than 0 or its full requested quantity.
C15_LimitFillsIffMarketable ==
    [][/\ CreateReturned /\ mode # "live" /\ Created.order_type = "limit" =>
             IF Marketable(Created)
             THEN /\ Created.status = "filled"
                  /\ Created.filled_quantity = Created.quantity
                  /\ Created.filled_price = Created.price
             ELSE /\ Created.status = "pending"
                  /\ Created.filled_quantity = 0
                  /\ UNCHANGED <<positions, trades>>
       /\ \A i \in 1..Len(orders') :
             orders'[i].filled_quantity \in {0, orders'[i].quantity}
       /\ \A i \in 1..Len(dropped') :
             dropped'[i].filled_quantity \in {0, dropped'[i].quantity}]_vars

\* a marketable limit order has filled and an unmarketable one is pending
C15_Witness ==
    /\ mode # "live"
    /\ \E i, j \in 1..Len(orders) :
          /\ orders[i].order_type = "limit" /\ orders[i].status = "filled"
          /\ orders[i].quantity > 0
          /\ orders[j].order_type = "limit" /\ orders[j].status = "pending"
          /\ orders[j].quantity > 0

(***************************************************************************)
(* The handler's trade ledger                                              *)
(***************************************************************************)
IsFilled(o) == o.status = "filled"

\* the orders of the order list with status filled, in the order of the list
FilledOrders == SelectSeq(orders, IsFilled)

\* C16: the trade ledger is append-only and in fill order: every operation
\* leaves it unchanged or appends exactly one entry at the end, and after any
\* sequence of create_order and cancel_order calls it holds exactly one entry
\* per order of the order list with status filled, in the order those orders
\* were filled, and none for a pending or cancelled order.
C16_LedgerAppendOnly ==
    [][/\ \/ trades' = trades
          \/ Len(trades') = Len(trades) + 1 /\ SubSeq(trades', 1, Len(trades)) = trades
       /\ Len(trades') = Len(FilledOrders')
       /\ \A i \in 1..Len(trades') :
             /\ trades'[i].timestamp = FilledOrders'[i].timestamp
             /\ trades'[i].symbol = FilledOrders'[i].symbol
             /\ trades'[i].side = FilledOrders'[i].side
             /\ trades'[i].quantity = FilledOrders'[i].filled_quantity
             /\ trades'[i].price = FilledOrders'[i].filled_price]_vars

\* the ledger holds the one fill of an order list whose first order was
\* cancelled before the second filled
C16_Witness ==
    /\ Len(orders) = 2
    /\ orders[1].status = "cancelled"
    /\ orders[2].status = "filled" /\ orders[2].quantity > 0
    /\ Len(trades) = 1

\* C17: the realized PnL get_position reports for a symbol is cumulative over
\* the whole fill history of the symbol: each reducing or closing fill adds its
\* realized PnL to it, each other fill leaves it as it is, also across the
\* point where the position goes flat.  (Stated of the fills made while the
\* symbol is held long.)
C17_RealizedPnlCumulative ==
    [][FillStep /\ GetPosition(positions, LastFill.symbol).quantity > 0 =>
         LET held == GetPosition(positions, LastFill.symbol)
         IN  GetPosition(positions', LastFill.symbol).realized_pnl =
                 RAdd(held.realized_pnl,
                      SpecifiedPnl(held, LastFill.side, LastFill.quantity, LastFill.price))]_vars

(***************************************************************************)
(* Position sizing                                                         *)
(***************************************************************************)
\* a call of calculate_position_size has been made
Sized == sizing.manager # "none"

\* the unadjusted cap capital x max_position_size / price
Cap(c) == RDiv(RMul(c.portfolio_value, max_position_size), c.current_price)

\* C18: for every capital >= 0, price > 0, volatility >= 0 (and correlation in
\* [-1, 1] where the parameter exists) calculate_position_size of both
\* RiskManager classes returns a quantity q with
\* 0 <= q <= capital x max_position_size / price, without raising.
C18_SizeWithinCap ==
    Sized /\ RGe(sizing.volatility, R(0)) =>
        /\ ~sizing.result.raised
        /\ RGe(sizing.result.size, R(0))
        /\ RLe(sizing.result.size, Cap(sizing))

\* C19: holding capital and price fixed, calculate_position_size is
\* monotonically non-increasing in volatility: for all volatilities
\* 0 <= v1 <= v2, size(v1) >= size(v2) >= 0.
C19_SizeMonotoneInVolatility ==
    Sized =>
        \A v1, v2 \in SizingVolatilities :
            RLe(R(0), v1) /\ RLe(v1, v2) =>
                /\ ~SizeOutcome(sizing, v1).raised
                /\ ~SizeOutcome(sizing, v2).raised
                /\ RGe(SizeOutcome(sizing, v1).size, SizeOutcome(sizing, v2).size)
                /\ RGe(SizeOutcome(sizing, v2).size, R(0))

\* C20: calculate_position_size rejects a NaN volatility instead of returning
\* a quantity, so no Backtester replay executes a trade whose size is NaN (as
\* on the first bars, where the 20-bar rolling volatility is undefined) and
\* capital never becomes NaN.
C20_NoNaNTrade ==
    /\ \A i \in 1..Len(executor_trades) : ~IsNaN(executor_trades[i].size)
    /\ ~IsNaN(portfolio_value)

(***************************************************************************)
(* Stop-loss and take-profit triggers                                      *)
(***************************************************************************)
\* C21: check_stop_loss is true exactly when a long position's current price
\* is strictly below entry x (1 - stop_loss) or a short position's strictly
\* above entry x (1 + stop_loss); a price on the threshold does not trigger
\* (entry 100, fraction 0.02: 97.99 triggers, 98 and 98.01 do not), and with
\* sign 0 it is false.
C21_StopLossStrict ==
    trigger.method = "check_stop_loss" =>
        LET e == trigger.entry_price
            p == trigger.current_price
            long == trigger.position > 0
            short == trigger.position < 0
        IN  /\ trigger.result <=>
                  \/ long /\ RLt(p, RMul(e, <<98, 100>>))
                  \/ short /\ RGt(p, RMul(e, <<102, 100>>))
            /\ e = R(100) /\ long =>
                  /\ p = <<9799, 100>> => trigger.result
                  /\ p \in {R(98), <<9801, 100>>} => ~trigger.result
            /\ e = R(100) /\ short /\ p = R(102) => ~trigger.result
            /\ trigger.position = 0 => ~trigger.result

\* the stop-loss of a long entered at 100 has been asked about at 97.99
C21_Witness ==
    /\ trigger.method = "check_stop_loss"
    /\ trigger.entry_price = R(100)
    /\ trigger.current_price = <<9799, 100>>
    /\ trigger.position > 0
    /\ trigger.result

\* C22: check_take_profit mirrors check_stop_loss: true exactly when a long
\* position's current price is strictly above entry x (1 + take_profit) or a
\* short position's strictly below entry x (1 - take_profit), false for sign
\* 0; for a positive entry price the stop-loss and the take-profit are never
\* both true for the same entry price, current price and sign.
C22_TakeProfitMirror ==
    trigger.method = "check_take_profit" =>
        LET e == trigger.entry_price
            p == trigger.current_price
        IN  /\ trigger.result <=>
                  \/ trigger.position > 0 /\ RGt(p, RMul(e, <<105, 100>>))
                  \/ trigger.position < 0 /\ RLt(p, RMul(e, <<95, 100>>))
            /\ trigger.position = 0 => ~trigger.result
            /\ ~(trigger.result /\ CheckStopLoss(e, p, trigger.position))

\* the take-profit of a short entered at 100 has triggered at 94.99
C22_Witness ==
    /\ trigger.method = "check_take_profit"
    /\ trigger.entry_price = R(100)
    /\ trigger.current_price = <<9499, 100>>
    /\ trigger.position < 0
    /\ trigger.result

(***************************************************************************)
(* The report of a replay                                                  *)
(***************************************************************************)
\* number of ledger entries with pnl > 0
Profitable(tr) == Cardinality({i \in 1..Len(tr) : RGt(tr[i].pnl, R(0))})

\* C23: the report returned by Backtester.run has total_trades = number of
\* ledger entries, profitable_trades = number of ledger entries with pnl > 0,
\* win_rate = profitable_trades / total_trades (0 when there are no trades),
\* total_pnl = sum of the ledger's pnl, and total_return =
\* (final_portfolio_value - initial_capital) / initial_capital.
C23_ReportAggregates ==
    Returned =>
        LET tr == report.trade_history
        IN  /\ report.total_trades = Len(tr)
            /\ report.profitable_trades = Profitable(tr)
            /\ report.win_rate =
                  (IF Len(tr) = 0 THEN R(0) ELSE Rat(Profitable(tr), Len(tr)))
            /\ report.total_pnl = RSum(Pnls(tr))
            /\ report.total_return =
                  RDiv(RSub(report.final_portfolio_value, report.initial_capital),
                       report.initial_capital)

(***************************************************************************)
(* Read-only calls of the handler                                          *)
(***************************************************************************)
\* a step that is a call of calculate_portfolio_value / of get_open_orders
ValueStep == query' # query /\ query'.method = "calculate_portfolio_value"

OpenOrdersStep == query' # query /\ query'.method = "get_open_orders"

RECURSIVE SignedValue(_, _, _)
\* sum of signed quantity x current price over a set of held symbols
SignedValue(pos, current_prices, held) ==
    IF held = {} THEN R(0)
    ELSE LET symbol == CHOOSE x \in held : TRUE
         IN  RAdd(RMul(R(pos[symbol].quantity), current_prices[symbol]),
                  SignedValue(pos, current_prices, held \ {symbol}))

\* C24: calculate_portfolio_value(current_prices) returns the sum over all
\* open positions of signed quantity x current price: every open position
\* contributes, short positions negatively, and the call changes no state.
C24_EveryPositionCounted ==
    [][ValueStep =>
         /\ query'.counted = DOMAIN positions
         /\ query'.value = SignedValue(positions, query'.current_prices, query'.counted)
         /\ UNCHANGED <<ehVars, btVars>>]_vars

\* the orders get_open_orders has to return: the i-th listed order, when it is
\* pending and of the symbol asked for
IsOpen(i, symbol) ==
    /\ orders[i].status = "pending"
    /\ symbol = "None" \/ orders[i].symbol = symbol

\* how many of the first i listed orders it has to return
OpenUpTo(i, symbol) == Cardinality({j \in 1..i : IsOpen(j, symbol)})

RiskUpdated == risk.call = "update_portfolio_risk"

\* C26: update_portfolio_risk sets rebalance_needed exactly when the computed
\* portfolio volatility is strictly greater than max_drawdown; its result has
\* optimal_weights, the optimizer's, exactly when rebalance_needed is set;
\* otherwise it reports only current_risk and sharpe_ratio and the optimizer
\* is not invoked.
C26_RebalanceIffAboveDrawdown ==
    RiskUpdated =>
        /\ risk.result.rebalance_needed <=>
               (~IsNaN(risk.portfolio_vol)
                /\ risk.portfolio_vol[1] * max_drawdown[2]
                       > max_drawdown[1] * risk.portfolio_vol[2])
        /\ ("optimal_weights" \in DOMAIN risk.result) <=> risk.result.rebalance_needed
        /\ risk.solver.invoked <=> risk.result.rebalance_needed
        /\ risk.result.rebalance_needed => risk.result.optimal_weights = risk.solver.x
        /\ ~risk.result.rebalance_needed =>
               DOMAIN risk.result = {"rebalance_needed", "current_risk", "sharpe_ratio"}
        /\ risk.result.current_risk = risk.portfolio_vol

\* C26 witness: one call at exactly max_drawdown has answered without
\* rebalancing, and (C26_WitnessAbove) one call above it has rebalanced
C26_Witness ==
    /\ RiskUpdated
    /\ risk.portfolio_vol = max_drawdown
    /\ ~risk.result.rebalance_needed
    /\ ~risk.solver.invoked

C26_WitnessAbove ==
    /\ RiskUpdated
    /\ risk.portfolio_vol = <<3, 10>>
    /\ risk.result.rebalance_needed
    /\ risk.result.optimal_weights = <<R(1), R(0)>>

\* C27: when the optimizer does not converge, optimize_portfolio raises
\* nothing and returns the solver's weights with a success flag that is
\* false, and the flag stays observable to the caller for every objective,
\* also when the optimizer is invoked through update_portfolio_risk.
C27_ConvergenceFlagObservable ==
    risk.solver.invoked /\ ~risk.solver.success =>
        /\ "raised" \in DOMAIN risk.result => ~risk.result.raised
        /\ "success" \in DOMAIN risk.result
        /\ ~risk.result.success
        /\ IF RiskUpdated
           THEN risk.result.optimal_weights = risk.solver.x
           ELSE risk.result.weights = risk.solver.x

\* C27 restricted to optimize_portfolio called directly
C27_DirectCallKeepsFlag ==
    risk.call = "optimize_portfolio" /\ risk.solver.invoked =>
        /\ ~risk.result.raised
        /\ risk.result.success = risk.solver.success
        /\ risk.result.weights = risk.solver.x

(***************************************************************************)
(* retry                                                                   *)
(***************************************************************************)
RECURSIVE RPow(_, _)
RPow(b, n) == IF n = 0 THEN R(1) ELSE RMul(b, RPow(b, n - 1))

WrapperDone == retry.pc \in {"returned", "raised"}

AllListed(outcomes, n) == \A i \in 1..n : outcomes[i].kind = "listed"

\* what the claim says of a wrapper made with max_retries >= 1, at every
\* point of its run
RetryBounded ==
    LET n == retry.max_retries
        outcomes == retry.outcomes
        calls == Len(retry.outcomes)
    IN  n >= 1 =>
            /\ calls <= n
            /\ AllListed(outcomes, calls - 1)
            /\ \A i \in 1..Len(retry.sleeps) :
                   retry.sleeps[i] = RMul(retry.delay, RPow(retry.backoff_factor, i - 1))
            /\ retry.pc = "running" =>
                   AllListed(outcomes, calls) /\ Len(retry.sleeps) = calls /\ calls < n
            /\ WrapperDone =>
                   /\ calls >= 1
                   /\ Len(retry.sleeps) = calls - 1
                   /\ outcomes[calls].kind = "return" =>
                          retry.pc = "returned" /\ retry.result = outcomes[calls].value
                   /\ outcomes[calls].kind = "other" =>
                          retry.pc = "raised" /\ retry.raised = outcomes[calls].value
                   /\ calls = n /\ outcomes[calls].kind = "listed" =>
                          retry.pc = "raised" /\ retry.raised = outcomes[calls].value
                   /\ retry.pc = "returned" => outcomes[calls].kind = "return"

\* C29: a function wrapped by retry(max_retries = n, n >= 1) is invoked at
\* most n times and the wrapper always terminates: it returns the result of
\* the first attempt that succeeds and makes no further attempt; if all n
\* attempts raise a listed exception it re-raises the last one without
\* sleeping after it; an exception of another type propagates from the
\* attempt that raised it; and the waits between consecutive attempts are
\* delay, delay x backoff_factor, delay x backoff_factor^2, ...
C29_RetryBoundedAndTerminates ==
    /\ []RetryBounded
    /\ (retry.pc = "running") ~> WrapperDone

\* C29 witness: three attempts all raised a listed exception, the wrapper
\* slept twice, 1 and then 2, and re-raised the last exception
C29_Witness ==
    /\ retry.max_retries = 3
    /\ retry.pc = "raised"
    /\ Len(retry.outcomes) = 3
    /\ AllListed(retry.outcomes, 3)
    /\ retry.outcomes[2].value # retry.outcomes[3].value
    /\ retry.raised = retry.outcomes[3].value
    /\ retry.sleeps = <<R(1), R(2)>>

\* C29, a second case reached: the second attempt succeeded after one sleep
C29_WitnessSuccess ==
    /\ retry.max_retries = 3
    /\ retry.pc = "returned"
    /\ Len(retry.outcomes) = 2
    /\ retry.result = "b"
    /\ retry.sleeps = <<R(1)>>

(***************************************************************************)
(* Executor: adding to a position                                          *)
(***************************************************************************)
\* the bar's fill is in the direction of the position the executor holds in
\* its symbol
AddsToPosition ==
    /\ BarStep /\ BarFilled
    /\ BarFill.symbol \in DOMAIN executor_positions
    /\ (BarFill.action = "buy") <=> (executor_positions[BarFill.symbol].signal > 0)

\* C30: in the simple Executor, a same-direction execute_trade on an existing
\* position adds the trade's size to the position, records pnl 0, and leaves
\* the stored entry price equal to the size-weighted average of the previous
\* entry price and the new trade price.  (Stated of trades and positions
\* whose sizes are numbers.)
C30_AddKeepsAverageCost ==
    [][AddsToPosition =>
         LET held == executor_positions[BarFill.symbol]
             total == RAdd(held.size, BarFill.size)
         IN  ~IsNaN(total) /\ RGt(total, R(0)) =>
                /\ BarFill.symbol \in DOMAIN executor_positions'
                /\ executor_positions'[BarFill.symbol].size = total
                /\ BarFill.pnl = R(0)
                /\ executor_positions'[BarFill.symbol].price =
                       RDiv(RAdd(RMul(held.size, held.price),
                                 RMul(BarFill.size, BarFill.price)),
                            total)]_vars

\* C30 without the entry price: the size accumulates and the trade's pnl is 0
C30_AddAccumulatesSize ==
    [][AddsToPosition =>
         LET held == executor_positions[BarFill.symbol]
             total == RAdd(held.size, BarFill.size)
         IN  ~IsNaN(total) /\ RGt(total, R(0)) =>
                /\ BarFill.symbol \in DOMAIN executor_positions'
                /\ executor_positions'[BarFill.symbol].size = total
                /\ BarFill.pnl = R(0)
                /\ executor_positions'[BarFill.symbol].price = BarFill.price]_vars

(***************************************************************************)
(* Executor: closing a position                                            *)
(***************************************************************************)
\* the bar's fill is against the position the executor holds in its symbol
ClosesPosition ==
    /\ BarStep /\ BarFilled
    /\ BarFill.symbol \in DOMAIN executor_positions
    /\ (BarFill.action = "buy") <=> (executor_positions[BarFill.symbol].signal < 0)

\* the size the loop hands to execute_trade on this bar
PassedSize ==
    IF position = 0
    THEN CalculatePositionSize(portfolio_value, bar'.current_price, bar'.volatility)
    ELSE executor_positions[run_symbol].size

\* C31: in the simple Executor, any execute_trade whose signal differs from
\* the stored position's signal deletes the whole position, whatever size is
\* passed: the recorded pnl is (exit - entry) x stored_size x stored_signal -
\* (entry + exit) x stored_size x commission, the ledger entry's size and
\* commission use the passed size, and neither a remainder nor an opposite
\* position is left.
C31_CloseDeletesWholePosition ==
    [][ClosesPosition =>
         LET held == executor_positions[BarFill.symbol]
         IN  /\ BarFill.symbol \notin DOMAIN executor_positions'
             /\ BarFill.pnl =
                    RSub(RMul(RMul(RSub(BarFill.price, held.price), held.size),
                              R(held.signal)),
                         RMul(RMul(RAdd(held.price, BarFill.price), held.size),
                              setup.commission))
             /\ BarFill.size = PassedSize
             /\ BarFill.commission =
                    RMul(RMul(BarFill.price, PassedSize), setup.commission)]_vars

\* C31 witness: a trade smaller than the position it was against has just
\* deleted that position, and the ledger shows the smaller size
C31_Witness ==
    LET n == Len(executor_trades)
    IN  /\ n >= 2
        /\ executor_trades[n].action # executor_trades[n - 1].action
        /\ ~IsNaN(executor_trades[n].size) /\ ~IsNaN(executor_trades[n - 1].size)
        /\ RLt(executor_trades[n].size, executor_trades[n - 1].size)
        /\ executor_trades[n].pnl # R(0)
        /\ run_symbol \notin DOMAIN executor_positions

\* C31, the other case reached: a trade larger than the position
C31_WitnessLarger ==
    LET n == Len(executor_trades)
    IN  /\ n >= 2
        /\ executor_trades[n].action # executor_trades[n - 1].action
        /\ ~IsNaN(executor_trades[n].size) /\ ~IsNaN(executor_trades[n - 1].size)
        /\ RGt(executor_trades[n].size, executor_trades[n - 1].size)
        /\ executor_trades[n].pnl # R(0)
        /\ run_symbol \notin DOMAIN executor_positions

(***************************************************************************)
(* Backtester: the loop and the executor agree                             *)
(***************************************************************************)
\* the loop's position and entry_price are the executor's entry of the symbol
LoopMatchesExecutor ==
    /\ position # 0 <=> run_symbol \in DOMAIN executor_positions
    /\ position # 0 =>
           /\ executor_positions[run_symbol].signal = position
           /\ executor_positions[run_symbol].price = entry_price

\* C32: at every bar boundary of a replay started on a fresh Backtester, the
\* loop's position is non-zero if and only if the executor's position table
\* holds the symbol, and then the stored signal equals the loop's position and
\* the stored price equals the loop's entry_price; in FLAT a non-zero signal
\* opens a position with sign equal to the signal on that bar, and a zero
\* signal in FLAT produces no trade and changes neither capital nor positions.
C32_LoopMatchesExecutor ==
    [][runs' = 1 =>
         /\ pc' = "running" => LoopMatchesExecutor'
         /\ BarStep /\ position = 0 /\ bar'.signal # 0 =>
                /\ position' = bar'.signal
                /\ BarFilled
                /\ BarFill.action = (IF bar'.signal > 0 THEN "buy" ELSE "sell")
                /\ executor_positions'[run_symbol].signal = bar'.signal
         /\ BarStep /\ position = 0 /\ bar'.signal = 0 =>
                UNCHANGED <<executor_trades, executor_positions, portfolio_value,
                            position, entry_price>>]_vars

\* C32 witness: in the first replay of a Backtester the loop is short after a
\* position was opened, closed and opened again, and the executor agrees
C32_Witness ==
    /\ runs = 1 /\ pc = "running"
    /\ Len(executor_trades) = 3
    /\ position = -1
    /\ run_symbol \in DOMAIN executor_positions
    /\ executor_positions[run_symbol].signal = -1
    /\ executor_positions[run_symbol].price = entry_price
    /\ entry_price = bar.current_price

\* C32 without the restriction to the first replay
C32_EveryReplay ==
    [][pc' = "running" => LoopMatchesExecutor']_vars

(***************************************************************************)
(* Orders left pending                                                     *)
(***************************************************************************)
\* C33: in simulated mode an order that create_order returns as pending (an
\* unmarketable limit order, or any stop-loss, take-profit or trailing-stop
\* order) is never filled afterwards: whatever create_order calls follow, at
\* whatever prices, its only possible status change is pending -> cancelled
\* through cancel_order, and it never alters positions or the ledger.
C33_PendingNeverFills ==
    [][/\ mode # "live" /\ CreateReturned
             /\ Created.order_type \in {"stop_loss", "take_profit", "trailing_stop"} =>
             Created.status = "pending" /\ UNCHANGED <<positions, trades>>
       /\ mode # "live" =>
             \A i \in 1..Len(orders) :
                orders[i].status = "pending" =>
                   /\ i <= Len(orders')
                   /\ orders'[i] \in {orders[i], SetStatus(orders[i], "cancelled")}
                   /\ orders'[i] # orders[i] =>
                          /\ CancelStep /\ ret' = "True"
                          /\ UNCHANGED <<positions, trades>>
                   /\ orders[i].filled_quantity = 0
                   /\ \A j \in 1..Len(trades) :
                          trades[j].timestamp # orders[i].timestamp]_vars

\* C33 witness: a take-profit order is still pending after a later market
\* order on its symbol filled at a price beyond its stop price
C33_Witness ==
    /\ mode # "live"
    /\ Len(orders) = 2
    /\ orders[1].order_type = "take_profit" /\ orders[1].status = "pending"
    /\ orders[1].quantity > 0
    /\ orders[2].order_type = "market" /\ orders[2].status = "filled"
    /\ orders[2].symbol = orders[1].symbol
    /\ orders[2].quantity > 0
    /\ RGt(orders[2].filled_price, orders[1].stop_price)
    /\ Len(trades) = 1

(***************************************************************************)
(* Reducing fills                                                          *)
(***************************************************************************)
\* the fill is against the held position and smaller than it
Reduces(held, fill) ==
    Opposite(held, fill.side) /\ fill.quantity < Abs(held.quantity)

\* C34: in ExecutionHandler, a fill that reduces a position without closing
\* it leaves the position's average entry price unchanged, for a sell that
\* reduces a long and equally for a buy that partly covers a short; the
\* average price changes only on fills that open or add.
C34_ReduceKeepsAveragePrice ==
    [][FillStep /\ LastFill.symbol \in DOMAIN positions
                /\ LastFill.symbol \in DOMAIN positions' =>
         LET held == positions[LastFill.symbol]
             after == positions'[LastFill.symbol]
         IN  /\ Reduces(held, LastFill) => after.average_price = held.average_price
             /\ after.average_price # held.average_price =>
                    \/ ~Opposite(held, LastFill.side)
                    \/ LastFill.quantity > Abs(held.quantity)]_vars

\* C34 of sells that reduce a long only
C34_SellKeepsAveragePrice ==
    [][FillStep /\ LastFill.symbol \in DOMAIN positions
                /\ LastFill.symbol \in DOMAIN positions' =>
         LET held == positions[LastFill.symbol]
             after == positions'[LastFill.symbol]
         IN  Reduces(held, LastFill) /\ LastFill.side = "sell" =>
                 after.average_price = held.average_price]_vars

\* a long has just been reduced by a sell without being closed
C34_LongReduced ==
    /\ Len(trades) = 2
    /\ trades[1].side = "buy" /\ trades[2].side = "sell"
    /\ trades[2].quantity < trades[1].quantity
    /\ "AAA" \in DOMAIN positions

(***************************************************************************)
(* Opening and closing fills of a replay                                   *)
(***************************************************************************)
\* C35: in every replay started on a fresh Backtester, only closing fills can
\* carry a non-zero pnl and each closing fill is preceded by its own opening
\* fill with pnl 0, so profitable_trades <= total_trades / 2 and the reported
\* win_rate never exceeds 0.5; the ledger length is even exactly when the
\* replay ends FLAT.
C35_OnlyClosingFillsCarryPnl ==
    runs = 1 =>
        LET tr == executor_trades
        IN  /\ \A i \in 1..Len(tr) :
                  /\ i % 2 = 1 => tr[i].pnl = R(0)
                  /\ i % 2 = 0 =>
                         /\ tr[i].action # tr[i - 1].action
                         /\ tr[i].size = tr[i - 1].size
                         /\ tr[i].timestamp > tr[i - 1].timestamp
            /\ Len(tr) % 2 = 0 <=> position = 0
            /\ Returned =>
                  /\ report.trade_history = tr
                  /\ 2 * report.profitable_trades <= report.total_trades
                  /\ RLe(report.win_rate, <<1, 2>>)

\* C35 witness: a first replay has returned with its position still open
\* after three fills, the second of them a profitable close
C35_Witness ==
    /\ Returned
    /\ runs = 1
    /\ report.total_trades = 3
    /\ report.profitable_trades = 1
    /\ position # 0

\* C35, the bound attained: a first replay that ended flat with every close
\* profitable reports a win rate of exactly one half
C35_WitnessHalf ==
    /\ Returned
    /\ runs = 1
    /\ report.total_trades = 4
    /\ report.win_rate = <<1, 2>>
    /\ position = 0

====
